---- MODULE Spec2Model ----
(***************************************************************************)
(* Model of the geolocation service in src/app.py: the coordinate          *)
(* validator, the sliding-window rate limiter, the /save_location,         *)
(* /statistics and /health handlers and the two SQLite tables.             *)
(*                                                                         *)
(* Numbers are whole degrees (finite floats are integers here), with the   *)
(* IEEE specials nan / +inf / -inf kept as separate classes.  Strings are  *)
(* sequences of one-character strings so that float(str) is a parser.      *)
(***************************************************************************)
EXTENDS Integers, Sequences, FiniteSets, TLC

VARIABLES
    clock,        \* wall clock read by datetime.now() and datetime('now')
    requests,     \* rate_limit's closure dict: client_ip -> list of timestamps
    locations,    \* table locations, in rowid order
    error_logs,   \* table error_logs, in rowid order
    req,          \* the request handled last
    resp,         \* the response returned last
    log_attempts, \* number of calls of log_error_to_db made by the last request
    hist,         \* history kept for the properties, the program has no such state
    thr,          \* per worker thread: position inside rate_limit / save_location
    vin,          \* validator harness: the (latitude, longitude) arguments
    vout          \* validator harness: what validate_coordinates did with them

vars == <<clock, requests, locations, error_logs, req, resp, log_attempts, hist, thr, vin, vout>>

----------------------------------------------------------------------------
(* Bounds of the model *)

\* rate_limit(max_requests=..., window=...) instantiated small
max_requests == 2
window == 2
\* the limiter is followed until a full window and one more tick have passed
MaxTime == window + 1
\* the service with its tables is followed over this many ticks
ServiceMaxTime == 1
\* table sizes at which the model stops accepting submissions
MaxRows == 2
MaxLogs == 1
\* number of worker threads serving requests concurrently
NThreads == 3

----------------------------------------------------------------------------
(* Config *)

MAX_LATITUDE == 90
MAX_LONGITUDE == 180
MIN_LATITUDE == -90
MIN_LONGITUDE == -180

----------------------------------------------------------------------------
(* Python values that can arrive in a JSON field *)

NoStr == << >>

\* t: absent (key not in the dict), null, int, bigint (an int beyond the
\* float range, n is its sign), float, nan, pinf, ninf, bool, str, list, dict
Val(t, n, s) == [t |-> t, n |-> n, s |-> s]

Absent == Val("absent", 0, NoStr)
Null == Val("null", 0, NoStr)
PyInt(n) == Val("int", n, NoStr)
PyBigInt(sign) == Val("bigint", sign, NoStr)
PyFloat(n) == Val("float", n, NoStr)
PyNaN == Val("nan", 0, NoStr)
PyInf == Val("pinf", 0, NoStr)
PyNegInf == Val("ninf", 0, NoStr)
PyBool(b) == Val("bool", IF b THEN 1 ELSE 0, NoStr)
PyStr(s) == Val("str", 0, s)
PyList == Val("list", 0, NoStr)
PyDict == Val("dict", 0, NoStr)

\* a float: cls is fin, nan, pinf or ninf; n is the value of a finite one
Flt(cls, n) == [cls |-> cls, n |-> n]

\* outcome of float(x): exc is none, ValueError, TypeError or OverflowError
FloatOk(cls, n) == [exc |-> "none", f |-> Flt(cls, n)]
FloatRaise(e) == [exc |-> e, f |-> Flt("nan", 0)]

DigitChars == <<"0", "1", "2", "3", "4", "5", "6", "7", "8", "9">>

IsDigit(c) == \E i \in 1..10 : DigitChars[i] = c

DigitVal(c) == (CHOOSE i \in 1..10 : DigitChars[i] = c) - 1

AllDigits(s) == Len(s) > 0 /\ \A i \in 1..Len(s) : IsDigit(s[i])

RECURSIVE DigitsVal(_)
DigitsVal(s) ==
    IF Len(s) = 0 THEN 0
    ELSE 10 * DigitsVal(SubSeq(s, 1, Len(s) - 1)) + DigitVal(s[Len(s)])

\* float(str): optional sign, then decimal digits, "nan" or "inf"
StrToFloat(s) ==
    LET neg == Len(s) > 0 /\ s[1] = "-"
        signed == Len(s) > 0 /\ (s[1] = "-" \/ s[1] = "+")
        body == IF signed THEN SubSeq(s, 2, Len(s)) ELSE s
    IN  IF AllDigits(body)
          THEN FloatOk("fin", IF neg THEN 0 - DigitsVal(body) ELSE DigitsVal(body))
        ELSE IF body = <<"n", "a", "n">> THEN FloatOk("nan", 0)
        ELSE IF body = <<"i", "n", "f">> THEN FloatOk(IF neg THEN "ninf" ELSE "pinf", 0)
        ELSE FloatRaise("ValueError")

\* float(x)
ToFloat(v) ==
    CASE v.t = "int" -> FloatOk("fin", v.n)
      [] v.t = "float" -> FloatOk("fin", v.n)
      [] v.t = "bool" -> FloatOk("fin", v.n)
      [] v.t = "nan" -> FloatOk("nan", 0)
      [] v.t = "pinf" -> FloatOk("pinf", 0)
      [] v.t = "ninf" -> FloatOk("ninf", 0)
      [] v.t = "bigint" -> FloatRaise("OverflowError")
      [] v.t = "str" -> StrToFloat(v.s)
      [] OTHER -> FloatRaise("TypeError")

\* bound <= x for an int bound and a float x; every comparison with nan is False
IntLeFloat(b, x) ==
    CASE x.cls = "fin" -> b <= x.n
      [] x.cls = "pinf" -> TRUE
      [] OTHER -> FALSE

\* x <= bound
FloatLeInt(x, b) ==
    CASE x.cls = "fin" -> x.n <= b
      [] x.cls = "ninf" -> TRUE
      [] OTHER -> FALSE

\* the latitude test without its upper bound
LatInRangeNoUpper(lat) == IntLeFloat(MIN_LATITUDE, lat)

LatInRange(lat) == IntLeFloat(MIN_LATITUDE, lat) /\ FloatLeInt(lat, MAX_LATITUDE)

LonInRange(lon) == IntLeFloat(MIN_LONGITUDE, lon) /\ FloatLeInt(lon, MAX_LONGITUDE)

\* outcome of validate_coordinates: a pair, None, or an exception leaving it
VPair(lat, lon) == [kind |-> "pair", lat |-> lat, lon |-> lon, exc |-> "none"]
VNone == [kind |-> "None", lat |-> Flt("nan", 0), lon |-> Flt("nan", 0), exc |-> "none"]
VRaise(e) == [kind |-> "raise", lat |-> Flt("nan", 0), lon |-> Flt("nan", 0), exc |-> e]
VPending == [kind |-> "pending", lat |-> Flt("nan", 0), lon |-> Flt("nan", 0), exc |-> "none"]

Caught(e) == e \in {"ValueError", "TypeError"}

validate_coordinates(latitude, longitude) ==
    LET a == ToFloat(latitude)
        b == ToFloat(longitude)
    IN  IF a.exc # "none" THEN (IF Caught(a.exc) THEN VNone ELSE VRaise(a.exc))
        ELSE IF b.exc # "none" THEN (IF Caught(b.exc) THEN VNone ELSE VRaise(b.exc))
        ELSE IF ~LatInRange(a.f) THEN VNone
        ELSE IF ~LonInRange(b.f) THEN VNone
        ELSE VPair(a.f, b.f)

----------------------------------------------------------------------------
(* Requests, responses and rows *)

Keys == {"ip1", "ip2"}

\* request body as request.get_json(silent=True) sees it: t is bad (does not
\* parse, get_json returns None), null, object, array, string or number;
\* truthy is bool(data)
Body(t, truthy, latitude, longitude) ==
    [t |-> t, truthy |-> truthy, latitude |-> latitude, longitude |-> longitude]

BadJson == Body("bad", FALSE, Absent, Absent)
JsonNull == Body("null", FALSE, Absent, Absent)
EmptyObject == Body("object", FALSE, Absent, Absent)
EmptyArray == Body("array", FALSE, Absent, Absent)
NonEmptyArray == Body("array", TRUE, Absent, Absent)
NonEmptyString == Body("string", TRUE, Absent, Absent)
NonZeroNumber == Body("number", TRUE, Absent, Absent)
Object(latitude, longitude) == Body("object", TRUE, latitude, longitude)

NoFlt == Flt("nan", 0)

Row(id, lat, lon, ts) == [id |-> id, latitude |-> lat, longitude |-> lon, timestamp |-> ts]

NoRow == Row(0, NoFlt, NoFlt, 0)

ErrorRow(msg, endpoint) == [error_message |-> msg, endpoint |-> endpoint]

NoBody == Body("none", FALSE, Absent, Absent)

\* db is what the store does while the request is served (not part of the
\* request): insOK / logOK tell whether the insert into locations / error_logs
\* succeeds, probe is the result of the statement of a GET handler
Store(insOK, logOK, probe) == [insOK |-> insOK, logOK |-> logOK, probe |-> probe]

Request(ep, ip, is_json, body, now, db) ==
    [ep |-> ep, client_ip |-> ip, is_json |-> is_json, body |-> body, now |-> now, db |-> db]

NoRequest == Request("none", "ip1", FALSE, NoBody, 0, Store(TRUE, TRUE, "none"))

\* error is the message of the JSON body (a tag per message of the source);
\* detail is TRUE when str(e) is part of the body
Response(code, error) ==
    [code |-> code, error |-> error, detail |-> FALSE,
     location_id |-> 0, latitude |-> NoFlt, longitude |-> NoFlt,
     status |-> "none", database |-> "none",
     total_locations |-> 0, last_location |-> NoRow, first_record_date |-> -1]

NoResponse == Response(0, "none")

----------------------------------------------------------------------------
(* rate_limit *)

\* a filter that also keeps an entry whose age is exactly the window
KeepInclusive(req_time, current_time) == current_time - req_time <= window

\* the filter of the list comprehension
Keep(req_time, current_time) == current_time - req_time < window

Prune(times, current_time) == SelectSeq(times, LAMBDA t : Keep(t, current_time))

LimitReached(times) == Len(times) >= max_requests

\* a limiter that appends before it checks, so that a rejected request is recorded
RateLimitRecordsRejected(times, current_time) ==
    LET kept == Prune(times, current_time)
    IN  <<Append(kept, current_time), ~LimitReached(kept)>>

\* the whole wrapper, run without interruption: <<new list, admitted>>
RateLimit(times, current_time) ==
    LET kept == Prune(times, current_time)
    IN  IF LimitReached(kept) THEN <<kept, FALSE>>
        ELSE <<Append(kept, current_time), TRUE>>

----------------------------------------------------------------------------
(* save_location, below its decorators *)

\* an error log write that does not notice its own failure and retries once
log_error_to_db_retry(logs, error_message, endpoint, logOK) ==
    IF logOK THEN Append(logs, ErrorRow(error_message, endpoint))
    ELSE Append(logs, ErrorRow(error_message, "retry"))

\* log_error_to_db: the insert is attempted once; a failing insert changes nothing
log_error_to_db(logs, error_message, endpoint, logOK) ==
    IF logOK THEN Append(logs, ErrorRow(error_message, endpoint)) ELSE logs

\* what the function body does with the parsed data:
\* step is the place it returned from
Outcome(step, response, rows, logs, attempts) ==
    [step |-> step, response |-> response, rows |-> rows, logs |-> logs, attempts |-> attempts]

Unexpected(exc, rows, logs, logOK) ==
    Outcome("except Exception", Response(500, "internal"), rows,
            log_error_to_db(logs, exc, "/save_location", logOK), 1)

save_location(body, now, rows, logs, insOK, logOK) ==
    IF ~body.truthy
      THEN Outcome("not data", Response(400, "bad json"), rows, logs, 0)
    ELSE IF body.t # "object"
      THEN Unexpected("AttributeError", rows, logs, logOK)
    ELSE IF body.latitude.t \in {"absent", "null"} \/ body.longitude.t \in {"absent", "null"}
      THEN Outcome("missing", Response(400, "missing fields"), rows, logs, 0)
    ELSE LET v == validate_coordinates(body.latitude, body.longitude)
         IN  IF v.kind = "raise" THEN Unexpected(v.exc, rows, logs, logOK)
             ELSE IF v.kind = "None"
               THEN Outcome("invalid", Response(400, "bad coordinates"), rows, logs, 0)
             ELSE IF insOK
               THEN LET id == Len(rows) + 1
                    IN  Outcome("inserted",
                                [Response(200, "none") EXCEPT !.status = "OK",
                                    !.location_id = id, !.latitude = v.lat, !.longitude = v.lon],
                                Append(rows, Row(id, v.lat, v.lon, now)), logs, 0)
             ELSE Outcome("except SQLiteError", Response(500, "storage"), rows,
                          log_error_to_db(logs, "SQLiteError", "/save_location", logOK), 1)

----------------------------------------------------------------------------
(* get_statistics and health_check *)

Max(S) == CHOOSE x \in S : \A y \in S : y <= x

Min(S) == CHOOSE x \in S : \A y \in S : x <= y

Timestamps(rows) == {rows[i].timestamp : i \in 1..Len(rows)}

\* ORDER BY timestamp ASC instead of DESC
FirstCandidates(rows) ==
    IF Len(rows) = 0 THEN {NoRow}
    ELSE {rows[i] : i \in {j \in 1..Len(rows) : rows[j].timestamp = Min(Timestamps(rows))}}

\* ORDER BY timestamp DESC LIMIT 1: SQL leaves the order of rows with equal
\* timestamps open (a scan of idx_timestamp gives the newest of them, a sort
\* of the table the oldest), so every row with the greatest timestamp can be it
LastCandidates(rows) ==
    IF Len(rows) = 0 THEN {NoRow}
    ELSE {rows[i] : i \in {j \in 1..Len(rows) : rows[j].timestamp = Max(Timestamps(rows))}}

get_statistics(rows, last, dbOK) ==
    IF ~dbOK THEN Response(500, "statistics")
    ELSE [Response(200, "none") EXCEPT !.status = "OK",
             !.total_locations = Len(rows),
             !.last_location = last,
             !.first_record_date = IF Len(rows) = 0 THEN -1 ELSE Min(Timestamps(rows))]

\* a health check that answers 200 whatever the probe did
health_check_always_200(probe) ==
    [Response(200, "none") EXCEPT !.status = "healthy",
        !.database = IF probe = "row" THEN "connected" ELSE "disconnected"]

\* probe is what SELECT 1 did: "row" (fetchone returns the row) or "error"
health_check(probe) ==
    IF probe = "error"
      THEN [Response(503, "none") EXCEPT !.status = "unhealthy",
               !.database = "disconnected", !.detail = TRUE]
    ELSE LET db_ok == probe = "row"
         IN  [Response(200, "none") EXCEPT !.status = "healthy",
                 !.database = IF db_ok THEN "connected" ELSE "disconnected"]

----------------------------------------------------------------------------
(* History variables *)

\* before: the key's list when the last /save_location request arrived
\* admitted: per key, the time of every request that passed the limiter
\* rejected: per key, how many requests got 429 since the key's last admission (up to 2)
\* run: what rejected was for the key of the last request when it arrived
\* last_ok: the row of the last submission if it answered 200, else NoRow
History(before, admitted, rejected, run, last_ok) ==
    [before |-> before, admitted |-> admitted, rejected |-> rejected, run |-> run,
     last_ok |-> last_ok]

InitHistory == History(<< >>, [k \in Keys |-> << >>], [k \in Keys |-> 0], 0, NoRow)

UpTo(n, cap) == IF n < cap THEN n + 1 ELSE cap

Arrived(h, ip, times) == [h EXCEPT !.before = times, !.run = h.rejected[ip], !.last_ok = NoRow]

Limited(h, ip, now, ok) ==
    [h EXCEPT !.admitted[ip] = IF ok THEN Append(@, now) ELSE @,
              !.rejected[ip] = IF ok THEN 0 ELSE UpTo(@, 2)]

Answered(h, response, rows) ==
    [h EXCEPT !.last_ok = IF response.code = 200 THEN rows[Len(rows)] ELSE NoRow]

----------------------------------------------------------------------------
(* The service, one request at a time *)

Threads == 1..NThreads

\* pc is the next line of rate_limit's wrapper the thread runs, snapshot the
\* list object the comprehension iterates, result the status it answered
Idle ==
    [pc |-> "idle", client_ip |-> "ip1", current_time |-> 0, snapshot |-> << >>,
     result |-> 0]

Bodies ==
    {BadJson, JsonNull, EmptyObject, NonEmptyArray, NonEmptyString,
     Object(PyFloat(55), PyFloat(37)),
     Object(PyStr(<<"-", "9", "0">>), PyStr(<<"1", "8", "0">>)),
     Object(PyInt(91), PyInt(0)),
     Object(PyInt(0), PyInt(-181)),
     Object(PyStr(<<"a", "b", "c">>), PyInt(0)),
     Object(PyNaN, PyInt(0)),
     Object(PyInt(0), PyInf),
     Object(PyFloat(55), Absent),
     Object(Null, PyFloat(37)),
     Object(PyBigInt(1), PyInt(0))}

Init ==
    /\ clock = 0
    /\ requests = [k \in Keys |-> << >>]
    /\ locations = << >>
    /\ error_logs = << >>
    /\ req = NoRequest
    /\ resp = NoResponse
    /\ log_attempts = 0
    /\ hist = InitHistory
    /\ thr = [t \in Threads |-> Idle]
    /\ vin = <<Absent, Absent>>
    /\ vout = VPending

Tick(limit) ==
    /\ clock < limit
    /\ clock' = clock + 1
    /\ UNCHANGED <<requests, locations, error_logs, req, resp, log_attempts, hist, thr, vin, vout>>

\* the decorators of save_location, outermost first: gate is "415", "429" or
\* "pass", times is the key's list afterwards
Gate(gate, times) == [gate |-> gate, times |-> times]

\* the two decorators in the other order: rate_limit outside require_json
DecoratorsLimiterFirst(is_json, times, now) ==
    LET r == RateLimit(times, now)
    IN  IF ~r[2] THEN Gate("429", r[1])
        ELSE IF ~is_json THEN Gate("415", r[1])
        ELSE Gate("pass", r[1])

Decorators(is_json, times, now) ==
    IF ~is_json THEN Gate("415", times)
    ELSE LET r == RateLimit(times, now)
         IN  Gate(IF r[2] THEN "pass" ELSE "429", r[1])

\* POST /save_location
SaveLocation(ip, is_json, body, insOK, logOK) ==
    /\ Len(locations) < MaxRows
    /\ Len(error_logs) < MaxLogs
    /\ req' = Request("/save_location", ip, is_json, body, clock, Store(insOK, logOK, "none"))
    /\ LET g == Decorators(is_json, requests[ip], clock)
           o == save_location(body, clock, locations, error_logs, insOK, logOK)
           h == Arrived(hist, ip, requests[ip])
       IN  /\ requests' = [requests EXCEPT ![ip] = g.times]
           /\ CASE g.gate = "415" ->
                     /\ resp' = Response(415, "content type")
                     /\ log_attempts' = 0
                     /\ hist' = h
                     /\ UNCHANGED <<locations, error_logs>>
                [] g.gate = "429" ->
                     /\ resp' = Response(429, "rate limit")
                     /\ log_attempts' = 0
                     /\ hist' = Limited(h, ip, clock, FALSE)
                     /\ UNCHANGED <<locations, error_logs>>
                [] OTHER ->
                     /\ resp' = o.response
                     /\ locations' = o.rows
                     /\ error_logs' = o.logs
                     /\ log_attempts' = o.attempts
                     /\ hist' = Answered(Limited(h, ip, clock, TRUE), o.response, o.rows)
    /\ UNCHANGED <<clock, thr, vin, vout>>

\* GET /statistics
Statistics(dbOK) ==
    /\ \E last \in LastCandidates(locations) :
          resp' = get_statistics(locations, last, dbOK)
    /\ req' = Request("/statistics", "ip1", FALSE, NoBody, clock,
                      Store(TRUE, TRUE, IF dbOK THEN "row" ELSE "error"))
    /\ log_attempts' = 0
    /\ UNCHANGED <<clock, requests, locations, error_logs, hist, thr, vin, vout>>

\* GET /health
Health(probe) ==
    /\ resp' = health_check(probe)
    /\ req' = Request("/health", "ip1", FALSE, NoBody, clock, Store(TRUE, TRUE, probe))
    /\ log_attempts' = 0
    /\ UNCHANGED <<clock, requests, locations, error_logs, hist, thr, vin, vout>>

\* the outcomes <<insOK, logOK>> of the store a request can tell apart: an
\* insert can only fail for a request that gets to it, and so can the error
\* log write
StoreOutcomes(is_json, body) ==
    LET ins == is_json /\ save_location(body, 0, << >>, << >>, TRUE, TRUE).step = "inserted"
        log == is_json /\ save_location(body, 0, << >>, << >>, FALSE, TRUE).attempts = 1
    IN  {o \in BOOLEAN \X BOOLEAN : (o[1] \/ ins) /\ (o[2] \/ (log /\ ~(ins /\ o[1])))}

\* the service with every kind of body, over a short time
Next ==
    \/ Tick(ServiceMaxTime)
    \/ \E is_json \in BOOLEAN, body \in Bodies :
          \E o \in StoreOutcomes(is_json, body) : SaveLocation("ip1", is_json, body, o[1], o[2])
    \/ \E dbOK \in BOOLEAN : Statistics(dbOK)
    \/ \E probe \in {"row", "error"} : Health(probe)

Spec == Init /\ [][Next]_vars

\* the limiter with every key, over more than a window, with bodies that
\* store nothing
LimiterBodies == {BadJson, Object(PyInt(91), PyInt(0))}

NextLimiter ==
    \/ Tick(MaxTime)
    \/ \E ip \in Keys, is_json \in BOOLEAN, body \in LimiterBodies :
          SaveLocation(ip, is_json, body, TRUE, TRUE)

SpecLimiter == Init /\ [][NextLimiter]_vars

----------------------------------------------------------------------------
(* validate_coordinates on its own *)

FieldValues ==
    {Null, PyList, PyDict, PyNaN, PyInf, PyNegInf, PyBool(TRUE),
     PyBigInt(1), PyBigInt(-1), PyFloat(55), PyFloat(37)}
    \cup {PyInt(n) : n \in {-181, -180, -91, -90, 0, 90, 91, 180, 181}}
    \cup {PyStr(str) : str \in {<<"-", "9", "0">>, <<"+", "9", "0">>, <<"9", "1">>,
                                <<"1", "8", "0">>, <<"-", "1", "8", "1">>,
                                <<"a", "b", "c">>, << >>, <<"n", "a", "n">>,
                                <<"-", "i", "n", "f">>}}

InitValidator ==
    /\ clock = 0
    /\ requests = [k \in Keys |-> << >>]
    /\ locations = << >>
    /\ error_logs = << >>
    /\ req = NoRequest
    /\ resp = NoResponse
    /\ log_attempts = 0
    /\ hist = InitHistory
    /\ thr = [t \in Threads |-> Idle]
    /\ vin \in FieldValues \X FieldValues
    /\ vout = VPending

Validate ==
    /\ vout.kind = "pending"
    /\ vout' = validate_coordinates(vin[1], vin[2])
    /\ UNCHANGED <<clock, requests, locations, error_logs, req, resp, log_attempts, hist, thr, vin>>

NextValidator == Validate

SpecValidator == InitValidator /\ [][NextValidator]_vars

----------------------------------------------------------------------------
(* The wrapper of rate_limit run by concurrent threads: a thread can be
   preempted between any two accesses of the shared dict *)

ConcurrentBodies == {BadJson, Object(PyFloat(55), PyFloat(37))}

\* lines 150-151: the request passed require_json; the thread reads the clock
Arrive(t, ip) ==
    /\ thr[t].pc = "idle"
    /\ thr[t].result = 0
    /\ thr' = [thr EXCEPT ![t] = [@ EXCEPT !.pc = "read", !.client_ip = ip, !.current_time = clock]]
    /\ UNCHANGED <<clock, requests, locations, error_logs, req, resp, log_attempts, hist, vin, vout>>

\* line 155: requests.get(client_ip, []) hands the list to the comprehension
ReadList(t) ==
    /\ thr[t].pc = "read"
    /\ thr' = [thr EXCEPT ![t] = [@ EXCEPT !.pc = "store", !.snapshot = requests[thr[t].client_ip]]]
    /\ UNCHANGED <<clock, requests, locations, error_logs, req, resp, log_attempts, hist, vin, vout>>

\* lines 154-157: the filtered list replaces the dict entry
StoreList(t) ==
    /\ thr[t].pc = "store"
    /\ requests' = [requests EXCEPT ![thr[t].client_ip] = Prune(thr[t].snapshot, thr[t].current_time)]
    /\ thr' = [thr EXCEPT ![t] = [@ EXCEPT !.pc = "check", !.snapshot = << >>]]
    /\ UNCHANGED <<clock, locations, error_logs, req, resp, log_attempts, hist, vin, vout>>

\* lines 160-164: the length test, 429 when the limit is reached
Check(t) ==
    /\ thr[t].pc = "check"
    /\ thr' = [thr EXCEPT ![t] =
                 IF LimitReached(requests[thr[t].client_ip])
                   THEN [@ EXCEPT !.pc = "done", !.result = 429]
                 ELSE [@ EXCEPT !.pc = "append"]]
    /\ UNCHANGED <<clock, requests, locations, error_logs, req, resp, log_attempts, hist, vin, vout>>

\* line 167: the append to the list the dict holds now
AppendTime(t) ==
    /\ thr[t].pc = "append"
    /\ requests' = [requests EXCEPT ![thr[t].client_ip] = Append(@, thr[t].current_time)]
    /\ thr' = [thr EXCEPT ![t] = [@ EXCEPT !.pc = "call"]]
    /\ UNCHANGED <<clock, locations, error_logs, req, resp, log_attempts, hist, vin, vout>>

\* line 169: the call of save_location
Call(t, body, insOK, logOK) ==
    /\ thr[t].pc = "call"
    /\ LET o == save_location(body, clock, locations, error_logs, insOK, logOK)
       IN  /\ locations' = o.rows
           /\ error_logs' = o.logs
           /\ thr' = [thr EXCEPT ![t] = [@ EXCEPT !.pc = "done", !.result = o.response.code]]
    /\ UNCHANGED <<clock, requests, req, resp, log_attempts, hist, vin, vout>>

NextConcurrent ==
    \/ Tick(ServiceMaxTime)
    \/ \E t \in Threads, ip \in Keys : Arrive(t, ip)
    \/ \E t \in Threads : ReadList(t)
    \/ \E t \in Threads : StoreList(t)
    \/ \E t \in Threads : Check(t)
    \/ \E t \in Threads : AppendTime(t)
    \/ \E t \in Threads, body \in ConcurrentBodies :
          \E o \in StoreOutcomes(TRUE, body) : Call(t, body, o[1], o[2])

SpecConcurrent == Init /\ [][NextConcurrent]_vars

----------------------------------------------------------------------------
(* Properties of the service (Spec) *)

\* the step serves a POST /save_location request
SaveStep == req'.ep = "/save_location" /\ clock' = clock

\* the request got past require_json and rate_limit
PassedGates(response) == response.code \notin {415, 429}

InBounds(row) ==
    /\ row.latitude.cls = "fin" /\ row.longitude.cls = "fin"
    /\ MIN_LATITUDE <= row.latitude.n /\ row.latitude.n <= MAX_LATITUDE
    /\ MIN_LONGITUDE <= row.longitude.n /\ row.longitude.n <= MAX_LONGITUDE

\* C4: every row of locations has -90 <= latitude <= 90 and -180 <= longitude
\* <= 180, whatever bodies were posted, and a row is added only by a request
\* for whose fields validate_coordinates returned a pair, the row carrying
\* that pair.
C4_RowsInBounds ==
    /\ [](\A i \in 1..Len(locations) : InBounds(locations[i]))
    /\ [][locations' # locations =>
            LET v == validate_coordinates(req'.body.latitude, req'.body.longitude)
            IN  /\ SaveStep
                /\ v.kind = "pair"
                /\ locations' = Append(locations, Row(Len(locations) + 1, v.lat, v.lon, clock))]_vars

\* rows at the corners of the range are stored, after a non-numeric and an
\* out-of-range submission answered 400 did not stop the service
C4_Witness ==
    /\ Len(locations) = 1
    /\ locations[1].latitude.n = MIN_LATITUDE /\ locations[1].longitude.n = MAX_LONGITUDE
    /\ req.body = Object(PyNaN, PyInt(0)) /\ resp.code = 400

\* the body is a client input error: not a JSON object, a coordinate absent,
\* or the coordinates not a pair of numbers within the ranges
ClientError(body) ==
    \/ body.t # "object"
    \/ body.latitude.t \in {"absent", "null"}
    \/ body.longitude.t \in {"absent", "null"}
    \/ validate_coordinates(body.latitude, body.longitude).kind # "pair"

\* C6: a POST /save_location that passes both gates with a body that is a
\* client input error is answered 400 and leaves locations and error_logs
\* unchanged.
C6_ClientErrorIs400 ==
    [][(SaveStep /\ PassedGates(resp') /\ ClientError(req'.body)) =>
          (resp'.code = 400 /\ UNCHANGED <<locations, error_logs>>)]_vars

\* the insert of this request was reached and failed
InsertFailed(request) ==
    /\ ~ClientError(request.body)
    /\ ~request.db.insOK

\* C7: when the insert into locations fails, log_error_to_db is called once
\* for '/save_location', the answer is 500 with the generic message, no row
\* is added to locations, and a failing error-log write changes nothing.
C7_InsertFailure ==
    [][(SaveStep /\ PassedGates(resp') /\ InsertFailed(req')) =>
          /\ resp' = Response(500, "storage")
          /\ log_attempts' = 1
          /\ locations' = locations
          /\ error_logs' = IF req'.db.logOK
                             THEN Append(error_logs, ErrorRow("SQLiteError", "/save_location"))
                           ELSE error_logs]_vars

\* an insert failed and the error-log write failed as well: 500, nothing written
C7_Witness ==
    /\ req.ep = "/save_location" /\ PassedGates(resp) /\ InsertFailed(req)
    /\ ~req.db.logOK
    /\ resp.code = 500 /\ error_logs = << >>

\* a 200 submission directly followed by a 200 GET /statistics
StatsAfterInsert ==
    /\ req.ep = "/statistics" /\ resp.code = 200
    /\ hist.last_ok # NoRow

SamePoint(a, b) == a.latitude = b.latitude /\ a.longitude = b.longitude

\* C8 as claimed: after a 200 submission, GET /statistics reports
\* total_locations >= 1 and the just-inserted point as last_location, also
\* when earlier rows carry the same timestamp.
C8_Claimed ==
    StatsAfterInsert =>
        /\ resp.total_locations >= 1
        /\ SamePoint(resp.last_location, hist.last_ok)

NewestAlone(rows, row) ==
    \A i \in 1..Len(rows) : rows[i].id # row.id => rows[i].timestamp < row.timestamp

\* C8 amended: after a 200 submission, GET /statistics reports
\* total_locations >= 1 and as last_location a row with the greatest
\* timestamp of the table; it is the just-inserted point whenever every
\* earlier row has a smaller timestamp than the new one.
C8_LastLocation ==
    StatsAfterInsert =>
        /\ resp.total_locations >= 1
        /\ resp.last_location.timestamp = Max(Timestamps(locations))
        /\ NewestAlone(locations, hist.last_ok) => SamePoint(resp.last_location, hist.last_ok)

\* the new row follows an older row with another point and a smaller timestamp
C8_Witness ==
    /\ StatsAfterInsert
    /\ Len(locations) = 2
    /\ NewestAlone(locations, hist.last_ok)
    /\ ~SamePoint(locations[1], locations[2])
    /\ SamePoint(resp.last_location, locations[2])

\* C9: GET /health answers 200 healthy / connected when the probe succeeds
\* and 503 unhealthy / disconnected when it fails, and never writes to
\* error_logs, locations or the limiter's lists.
C9_Health ==
    /\ [](req.ep = "/health" =>
            /\ req.db.probe = "row" =>
                 resp.code = 200 /\ resp.status = "healthy" /\ resp.database = "connected"
            /\ req.db.probe = "error" =>
                 resp.code = 503 /\ resp.status = "unhealthy" /\ resp.database = "disconnected")
    /\ [][(req'.ep = "/health" /\ clock' = clock) =>
            UNCHANGED <<error_logs, locations, requests>>]_vars

\* a failed probe answered 503 while the tables and the limiter hold data
C9_Witness ==
    /\ req.ep = "/health" /\ req.db.probe = "error" /\ resp.code = 503
    /\ Len(locations) > 0 /\ Len(error_logs) > 0 /\ Len(requests["ip1"]) > 0

Count(times, x) == Cardinality({i \in 1..Len(times) : times[i] = x})

\* C10: the gates run content type, then rate limit, then body: a 415
\* leaves the client's list unchanged (also when the limit is reached), a
\* request arriving at a reached limit is answered 429 whatever its body and
\* nothing is stored, and a request that passed the limiter has its time
\* recorded whether it ends in 200, 400 or 500.
C10_GateOrder ==
    [][SaveStep =>
         LET ip == req'.client_ip
             full == LimitReached(Prune(requests[ip], clock))
         IN  /\ ~req'.is_json => (resp'.code = 415 /\ requests' = requests)
             /\ (req'.is_json /\ full) =>
                   (resp'.code = 429 /\ log_attempts' = 0 /\ UNCHANGED <<locations, error_logs>>)
             /\ (req'.is_json /\ ~full) =>
                   /\ resp'.code \in {200, 400, 500}
                   /\ Count(requests'[ip], clock) = Count(requests[ip], clock) + 1]_vars

\* a valid submission is answered 429 although nothing was ever stored: the
\* quota went to submissions answered 400
C10_Witness ==
    /\ req.ep = "/save_location" /\ resp.code = 429
    /\ ~ClientError(req.body)
    /\ locations = << >> /\ error_logs = << >>
    /\ Len(hist.admitted[req.client_ip]) = max_requests

----------------------------------------------------------------------------
(* Properties of the limiter (SpecLimiter) *)

\* the entries of times that are not older than now - window
NotOlder(times, now) == SelectSeq(times, LAMBDA t : t >= now - window)

\* the entries of times that are younger than the window
Younger(times, now) == SelectSeq(times, LAMBDA t : now - t < window)

\* C2 as claimed: a call at time now discards exactly the entries older than
\* now - window, keeping and counting an entry whose age is exactly the
\* window; it rejects iff the rest has at least max_requests entries and
\* otherwise appends now.
C2_Claimed ==
    [][(SaveStep /\ req'.is_json) =>
         LET ip == req'.client_ip
             kept == NotOlder(requests[ip], clock)
         IN  IF Len(kept) >= max_requests
               THEN resp'.code = 429 /\ requests'[ip] = kept
             ELSE resp'.code # 429 /\ requests'[ip] = Append(kept, clock)]_vars

\* C2 amended: a call at time now discards exactly the entries whose age is
\* at least the window (time <= now - window), so an entry whose age is
\* exactly the window is discarded and not counted; it rejects iff the rest
\* has at least max_requests entries and otherwise appends now.
C2_PruneCountAppend ==
    [][(SaveStep /\ req'.is_json) =>
         LET ip == req'.client_ip
             kept == Younger(requests[ip], clock)
         IN  IF Len(kept) >= max_requests
               THEN resp'.code = 429 /\ requests'[ip] = kept
             ELSE resp'.code # 429 /\ requests'[ip] = Append(kept, clock)]_vars

\* a full list whose entries are exactly one window old: the request is
\* admitted and the list holds nothing but its time
C2_Witness ==
    /\ req.ep = "/save_location" /\ req.is_json
    /\ Len(hist.before) = max_requests
    /\ \A i \in 1..Len(hist.before) : req.now - hist.before[i] = window
    /\ resp.code # 429
    /\ requests[req.client_ip] = <<req.now>>

\* how many requests of the key were admitted less than a window before now
AdmittedWithin(ip, now) ==
    Cardinality({i \in 1..Len(hist.admitted[ip]) : now - hist.admitted[ip][i] < window})

\* how many were admitted at most a window before now
AdmittedNotPast(ip, now) ==
    Cardinality({i \in 1..Len(hist.admitted[ip]) : now - hist.admitted[ip][i] <= window})

\* C3: from the empty state, a request of a key is rejected only when
\* max_requests requests of that key were admitted and are not yet past the
\* window (so the first max_requests are admitted, and so is the next one
\* once the window has passed, whatever was rejected in between); with
\* max_requests admissions inside the window every further request is
\* rejected; and a rejected request adds nothing to the key's list.
C3_SlidingWindow ==
    (req.ep = "/save_location" /\ req.is_json) =>
        LET ip == req.client_ip
        IN  /\ resp.code = 429 =>
                 /\ AdmittedNotPast(ip, req.now) >= max_requests
                 /\ Len(requests[ip]) <= Len(hist.before)
                 /\ Count(requests[ip], req.now) = Count(hist.before, req.now)
            /\ resp.code # 429 =>
                 /\ AdmittedWithin(ip, req.now) <= max_requests
                 /\ requests[ip][Len(requests[ip])] = req.now

\* max_requests admissions, then at least two rejections, then an admission
\* once the window has passed
C3_Witness ==
    /\ req.ep = "/save_location" /\ req.is_json /\ resp.code # 429
    /\ hist.run >= 2
    /\ Len(hist.admitted[req.client_ip]) = max_requests + 1
    /\ \A i \in 1..max_requests : req.now - hist.admitted[req.client_ip][i] > window

----------------------------------------------------------------------------
(* Properties of validate_coordinates (SpecValidator) *)

\* the value is a number or a string spelling one
Numeric(v) ==
    \/ v.t \in {"int", "bigint", "float", "bool"}
    \/ v.t = "str" /\ StrToFloat(v.s).exc = "none" /\ StrToFloat(v.s).f.cls = "fin"

NumberOf(v) == IF v.t = "str" THEN StrToFloat(v.s).f.n ELSE v.n

Within(v, lo, hi) == Numeric(v) /\ v.t # "bigint" /\ lo <= NumberOf(v) /\ NumberOf(v) <= hi

\* C5: validate_coordinates returns the pair of numbers it was given when
\* the latitude is in [-90, 90] and the longitude in [-180, 180], and
\* returns None for every other input.
C5_Claimed ==
    vout.kind # "pending" =>
        IF Within(vin[1], MIN_LATITUDE, MAX_LATITUDE) /\ Within(vin[2], MIN_LONGITUDE, MAX_LONGITUDE)
          THEN vout = VPair(Flt("fin", NumberOf(vin[1])), Flt("fin", NumberOf(vin[2])))
        ELSE vout.kind = "None"

----------------------------------------------------------------------------
(* Properties of the limiter under concurrent requests (SpecConcurrent) *)

Served(t) == thr[t].pc = "done"

Passed(t) == Served(t) /\ thr[t].result # 429

\* every thread served a request of the same key, all within one window
Burst(ip) ==
    /\ \A t \in Threads : Served(t) /\ thr[t].client_ip = ip
    /\ \A t, u \in Threads : thr[t].current_time - thr[u].current_time < window

\* C1: of NThreads > max_requests concurrent requests of one key inside one
\* window exactly max_requests pass the limiter and the others get 429, and
\* the key's list holds the time of every request that passed.
C1_Claimed ==
    \A ip \in Keys :
        (Burst(ip) /\ NThreads > max_requests) =>
            /\ Cardinality({t \in Threads : Passed(t)}) = max_requests
            /\ Cardinality({t \in Threads : Served(t) /\ thr[t].result = 429})
                  = NThreads - max_requests
            /\ \A x \in 0..MaxTime :
                  Count(requests[ip], x)
                     = Cardinality({t \in Threads : Passed(t) /\ thr[t].current_time = x})

====
